---- MODULE Spec2Model ----
(***************************************************************************)
(* The widget layout store (WidgetLayoutStore) of one room: which widgets   *)
(* sit in the containers Top, Center and Right, how the layout is computed  *)
(* from the registry's widget list and the persisted layout, how the        *)
(* mutation API changes it, the Top height, copyLayoutToRoom and the        *)
(* write-through. The operations follow spec.md sections 3 to 7 and the     *)
(* expectations of the store's tests (test/UserActivity-test.js, lines      *)
(* 152-401).                                                                *)
(*                                                                          *)
(* The presence timer (UserActivity): the active and the passive countdown, *)
(* after spec.md section 6 and test/UserActivity-test.js, lines 33-134.     *)
(*                                                                          *)
(* blobIsAnimated for image/gif, after src/utils/Image.ts, lines 55-84, and *)
(* for image/png and image/apng, after lines 86-118.                        *)
(***************************************************************************)
EXTENDS Integers, Sequences, FiniteSets, TLC

\* ------------------------------------------------------------------ bounds

\* Number of widget ids the registry can report for the room (mockApps has 4).
\* The registry lists tried are the prefixes of 1..NumWidgets.
NumWidgets == 4

\* Largest ordinal index a layout written by another session may carry.
MaxIndex == 1

\* Number of widgets of the room whose write-through calls are followed.
PersistWidgets == 2

\* Largest number of write-through calls in flight at once.
MaxPending == 1

\* Largest number of chunks of a PNG file given to blobIsAnimated.
MaxChunks == 3

\* ---------------------------------------------------------------- constants

\* A Top container with room for one widget more.
MAX_PINNED_Four == 3 + 1

\* Capacity of the Top container.
MAX_PINNED == 3

\* Capacity of the Center container.
MAX_CENTER == 1

\* Marker of an entry that carries no ordinal index.
NoIndex == -1

\* The "unset" height getContainerHeight returns (null), distinct from 0.
NoHeight == -1

\* The height the tests set on the Top container.
TestHeight == 23

\* Seconds after an activity signal during which the user counts as active.
ActiveWindow == 10

\* Seconds after an activity signal during which the user counts as passive.
PassiveWindow == 180

\* Seconds between the activity signals of the run that extends the timer.
SignalSpacing == 60

\* Marker of "no activity signal taken since start() or since focus was lost".
Never == -1

Widgets == 1..NumWidgets

Containers == {"top", "center", "right"}

\* ------------------------------------------------------------------ helpers

Range(s) == {s[i] : i \in DOMAIN s}

Remove(s, w) == SelectSeq(s, LAMBDA x : x # w)

RemoveAt(s, i) == [j \in 1..(Len(s) - 1) |-> IF j < i THEN s[j] ELSE s[j + 1]]

InsertAt(s, i, w) ==
    [j \in 1..(Len(s) + 1) |-> IF j < i THEN s[j] ELSE IF j = i THEN w ELSE s[j - 1]]

RECURSIVE AscendingSeq(_)
\* The registry reports widgets in id order (mockApps: "1", "2", "3", "4").
AscendingSeq(S) ==
    IF S = {} THEN <<>>
    ELSE LET m == CHOOSE x \in S : \A y \in S : x <= y
         IN <<m>> \o AscendingSeq(S \ {m})

\* The members of S in the order of the registry's list a.
InRegistryOrder(a, S) == SelectSeq(a, LAMBDA x : x \in S)

\* A room layout: three containers, each a list of widget ids. Top is ordered
\* by ordinal index; Right is the unordered default bucket and lists its
\* members in registry order.
EmptyLayout == [top |-> <<>>, center |-> <<>>, right |-> <<>>]

Placed(l) == Range(l.top) \cup Range(l.center) \cup Range(l.right)

\* getContainerWidgets(room, container)
getContainerWidgets(l, c) ==
    IF c = "top" THEN l.top ELSE IF c = "center" THEN l.center ELSE l.right

\* A persisted entry of one widget; container "none" means "not mentioned".
NoEntry == [container |-> "none", index |-> NoIndex]

NoPersisted == [w \in Widgets |-> NoEntry]

\* Every entry a layout written by another session may hold for a widget:
\* container "top" or "center", absence meaning the default container.
Entries ==
    {NoEntry, [container |-> "center", index |-> NoIndex]}
        \cup {[container |-> "top", index |-> i] : i \in 0..MaxIndex}

\* -------------------------------------------------- layout computation

\* Position of the entry that orders first: lowest ordinal index, ties broken
\* by the earlier position in the registry's list.
MinPos(s, p) ==
    CHOOSE i \in DOMAIN s :
        \A j \in DOMAIN s :
            \/ p[s[i]].index < p[s[j]].index
            \/ (p[s[i]].index = p[s[j]].index /\ i <= j)

\* The persisted ordinal index is ignored: the entries keep the registry's order.
SortByIndex_RegistryOrder(s, p) == s

RECURSIVE SortByIndex(_, _)
\* The entries of s by ascending persisted ordinal index (a stable sort).
SortByIndex(s, p) ==
    IF s = <<>> THEN <<>>
    ELSE LET i == MinPos(s, p)
         IN <<s[i]>> \o SortByIndex(RemoveAt(s, i), p)

\* Widgets without a placement are pinned instead of going to the sidebar.
DefaultContainer_Top == "top"

\* The container of a widget that has no persisted placement.
DefaultContainer == "right"

\* The container the persisted layout p asks for widget w.
TargetContainer(p, w) ==
    IF p[w].container \in {"top", "center"} THEN p[w].container ELSE DefaultContainer

\* The first n members of s (all of s when it is shorter).
Take(s, n) == SubSeq(s, 1, IF Len(s) < n THEN Len(s) ELSE n)

\* Steps 2-5 of recalculateRoom: the layout of widget list a under the
\* persisted placement p. Widgets beyond a container's capacity, and widgets
\* with no placement, go to Right, which lists its members in registry order.
Recalculate(a, p) ==
    LET centerWanted == SelectSeq(a, LAMBDA w : TargetContainer(p, w) = "center")
        topWanted == SortByIndex(SelectSeq(a, LAMBDA w : TargetContainer(p, w) = "top"), p)
        center == Take(centerWanted, MAX_CENTER)
        top == Take(topWanted, MAX_PINNED)
    IN [top |-> top, center |-> center,
        right |-> InRegistryOrder(a, Range(a) \ (Range(top) \cup Range(center)))]

\* The persisted form of a layout: Top members carry their ordinal index,
\* members of the other containers only the container tag.
IndexOf(s, w) == CHOOSE i \in DOMAIN s : s[i] = w

Serialize(l) ==
    [w \in Widgets |->
        IF w \in Range(l.top)
            THEN [container |-> "top", index |-> IndexOf(l.top, w) - 1]
        ELSE IF w \in Range(l.center)
            THEN [container |-> "center", index |-> NoIndex]
        ELSE IF w \in Range(l.right)
            THEN [container |-> "right", index |-> NoIndex]
        ELSE NoEntry]

\* ------------------------------------------------------- mutation API

\* canAddToContainer(room, container)
canAddToContainer(l, c) ==
    CASE c = "top" -> Len(l.top) < MAX_PINNED
      [] c = "center" -> Len(l.center) < MAX_CENTER
      [] OTHER -> TRUE

\* Maximising leaves the other pinned widgets in Top.
MaximiseLayout_KeepsPins(l, a, w) ==
    [top |-> Remove(l.top, w),
     center |-> <<w>>,
     right |-> InRegistryOrder(a, (Range(l.right) \cup Range(l.center)) \ {w})]

\* Maximising drops the previous Center occupant instead of moving it to Right.
MaximiseLayout_DropsOccupant(l, a, w) ==
    [top |-> <<>>,
     center |-> <<w>>,
     right |-> InRegistryOrder(a, (Range(l.right) \cup Range(l.top)) \ {w})]

\* moveToContainer(room, w, Center): w becomes the only Center widget, the
\* previous Center occupant and every pinned widget go to Right.
MaximiseLayout(l, a, w) ==
    [top |-> <<>>,
     center |-> <<w>>,
     right |-> InRegistryOrder(a, Placed(l) \ {w})]

\* Pinning forgets to take the widget out of Right.
PinLayout_KeepsRight(l, a, w) ==
    [top |-> Append(Remove(l.top, w), w),
     center |-> <<>>,
     right |-> InRegistryOrder(a, Range(l.right) \cup (Range(l.center) \ {w}))]

\* Pinning leaves the maximised widget in Center.
PinLayout_KeepsCenter(l, a, w) ==
    [top |-> Append(Remove(l.top, w), w),
     center |-> Remove(l.center, w),
     right |-> InRegistryOrder(a, Range(l.right) \ {w})]

\* moveToContainer(room, w, Top) below capacity: w is appended to Top and the
\* Center occupant (w itself or another widget) leaves Center, another widget
\* going to Right.
PinLayout(l, a, w) ==
    [top |-> Append(Remove(l.top, w), w),
     center |-> <<>>,
     right |-> InRegistryOrder(a, (Range(l.right) \cup Range(l.center)) \ {w})]

\* moveToContainer(room, w, Right): always succeeds.
UnpinLayout(l, a, w) ==
    [top |-> Remove(l.top, w),
     center |-> Remove(l.center, w),
     right |-> InRegistryOrder(a, Range(l.right) \cup {w})]

\* The move never checks Top's capacity.
MoveOutcome_NoCapacityCheck(l, w, c) == IF w \notin Placed(l) THEN "noop" ELSE "ok"

\* Outcome of moveToContainer(room, w, c) on layout l: a widget that is not
\* laid out in the room is a no-op, a move to a full Top is refused.
MoveOutcome(l, w, c) ==
    IF w \notin Placed(l) THEN "noop"
    ELSE IF c = "top" /\ w \notin Range(l.top) /\ ~canAddToContainer(l, "top")
        THEN "CapacityExceeded"
    ELSE "ok"

MoveResult(l, a, w, c) ==
    IF MoveOutcome(l, w, c) # "ok" THEN l
    ELSE IF c = "top" THEN PinLayout(l, a, w)
    ELSE IF c = "center" THEN MaximiseLayout(l, a, w)
    ELSE UnpinLayout(l, a, w)

\* targetIndex clamped to [0, count-1]
Clamp(i, n) == IF i < 0 THEN 0 ELSE IF i > n - 1 THEN n - 1 ELSE i

\* The widget changes places with the member at the target index.
Reorder_Swap(s, w, i) ==
    LET from == CHOOSE j \in DOMAIN s : s[j] = w
        to == Clamp(i, Len(s)) + 1
    IN [j \in DOMAIN s |-> IF j = to THEN w ELSE IF j = from THEN s[to] ELSE s[j]]

\* The members of s with w taken out and put back at index i (0-based, clamped).
Reorder(s, w, i) == InsertAt(Remove(s, w), Clamp(i, Len(s)) + 1, w)

\* moveWithinContainer(room, c, w, targetIndex) on layout l
ReorderResult(l, c, w, i) ==
    IF w \notin Range(getContainerWidgets(l, c)) THEN l
    ELSE IF c = "right" THEN l
    ELSE [l EXCEPT ![c] = Reorder(l[c], w, i)]

\* ------------------------------------------------- heights and copying

\* The heights setContainerHeight is called with: an explicit zero and the
\* height of the tests.
Heights == {0, TestHeight}

\* An explicit height of zero is taken for "no height".
StoredHeight_ZeroIsUnset(h) == IF h = 0 THEN NoHeight ELSE h

\* The height setContainerHeight(room, Top, h) stores for the room's Top.
StoredHeight(h) == h

\* getContainerHeight(room, c) with stored Top height h: a height is defined
\* only for Top.
getContainerHeight(h, c) == IF c = "top" THEN h ELSE NoHeight

\* The width distributions the Top container may hold in memory for n widgets:
\* the one of the copied layout of the tests and the even ones. Widths change
\* by resizing, which the layout operations here do not describe.
Distributions(n) ==
    CASE n = 0 -> {<<>>}
      [] n = 1 -> {<<100>>}
      [] n = 2 -> {<<50, 50>>}
      [] OTHER -> {<<10, 26, 64>>, <<33, 33, 34>>}

\* Every Top entry is written with index 0.
CopyEntry_IndexZero(l, h, ws, w) ==
    IF w \in Range(l.top)
        THEN [container |-> "top", index |-> 0,
              width |-> ws[IndexOf(l.top, w)], height |-> h]
    ELSE IF w \in Range(l.center) THEN [container |-> "center"]
    ELSE [container |-> "right"]

\* The entry copyLayoutToRoom writes for widget w of layout l with Top height
\* h and Top widths ws: Top members carry index, width and height, the
\* members of the other containers only the container tag.
CopyEntry(l, h, ws, w) ==
    IF w \in Range(l.top)
        THEN [container |-> "top", index |-> IndexOf(l.top, w) - 1,
              width |-> ws[IndexOf(l.top, w)], height |-> h]
    ELSE IF w \in Range(l.center) THEN [container |-> "center"]
    ELSE [container |-> "right"]

\* The content copyLayoutToRoom sends: one entry per widget of the layout.
CopyLayout(l, h, ws) == [w \in Placed(l) |-> CopyEntry(l, h, ws, w)]

\* Nothing was sent to the room yet.
NothingWritten == [w \in {} |-> [container |-> "right"]]

\* ------------------------------------------------------ blobIsAnimated

RECURSIVE BitAnd(_, _)
\* a & b on non-negative integers
BitAnd(a, b) ==
    IF a = 0 \/ b = 0 THEN 0
    ELSE (a % 2) * (b % 2) + 2 * BitAnd(a \div 2, b \div 2)

\* 2^n
RECURSIVE Pow2(_)
Pow2(n) == IF n = 0 THEN 1 ELSE 2 * Pow2(n - 1)

\* dv.getUint8(k): DataView offsets count from 0
getUint8(dv, k) == dv[k + 1]

\* dv.getUint16(k): big-endian, the DataView default
getUint16(dv, k) == dv[k + 1] * 256 + dv[k + 2]

\* n zero bytes
Zeros(n) == [j \in 1..n |-> 0]

\* The packed fields tried for the Logical Screen Descriptor: no Global Color
\* Table, size bits without the table flag, a table of 2 colours.
PackedSamples == {0, 7, 128}

\* The bytes tried at the two positions where the Graphics Control Extension
\* is looked for: 0x21 and 0xF9 themselves, 0x2C (an Image Descriptor), 0xFE
\* (a Comment Extension label) and bytes sharing some or no bits with them.
ByteSamples == {0, 1, 6, 33, 44, 249, 254, 255}

\* The bytes tried for the two delay time bytes.
DelaySamples == {0, 1, 10}

\* globalColorTableSize for the packed byte (Image.ts lines 60-67)
GlobalColorTableSize(globalColorTable) ==
    IF BitAnd(globalColorTable, 128) # 0
        THEN 3 * Pow2(BitAnd(globalColorTable, 7) + 1)
    ELSE 0

\* The bytes of a GIF from file offset 10 on, as the DataView shows them: the
\* packed byte, background colour and aspect ratio, the Global Color Table,
\* then a block of two leading bytes, two more bytes and the two bytes read
\* as the delay time.
GifView(packed, first, second, hi, lo) ==
    <<packed, 0, 0>> \o Zeros(GlobalColorTableSize(packed))
        \o <<first, second, 4, 0, hi, lo>>

\* The condition under which the delay time is read (Image.ts line 78)
IsGraphicsControl(extensionIntroducer, graphicsControlLabel) ==
    BitAnd(extensionIntroducer, 33) # 0 /\ BitAnd(graphicsControlLabel, 249) # 0

\* ------------------------------- blobIsAnimated("image/png" / "image/apng")

\* dv.getUint32(k): big-endian, the DataView default (Image.ts line 29)
getUint32(dv, k) ==
    ((dv[k + 1] * 256 + dv[k + 2]) * 256 + dv[k + 3]) * 256 + dv[k + 4]

\* arrayBufferRead(a, start, len): the bytes of a.slice(start, start + len);
\* slice stops at the end of the buffer (Image.ts lines 23-25).
arrayBufferRead(a, start, len) ==
    SubSeq(a, start + 1, IF start + len < Len(a) THEN start + len ELSE Len(a))

\* arrayBufferReadStr(a, start, len): one character per byte read, so two
\* strings are equal exactly when the bytes read are (Image.ts lines 32-34).
arrayBufferReadStr(a, start, len) == arrayBufferRead(a, start, len)

\* new DataView(a, start, 4) throws a RangeError when fewer than 4 bytes
\* follow start (Image.ts line 28).
ReadIntThrows(a, start) == start + 4 > Len(a)

\* arrayBufferReadInt(a, start), when it does not throw (Image.ts lines 27-30)
arrayBufferReadInt(a, start) == getUint32(a, start)

\* arrayHasDiff(a, b) of ./arrays: the two arrays differ in length or at some
\* position.
arrayHasDiff(a, b) == a # b

\* The PNG signature (Image.ts lines 90-95)
PngSignature == <<137, 80, 78, 71, 13, 10, 26, 10>>

\* The chunk types as character codes.
acTL == <<97, 99, 84, 76>>

IDAT == <<73, 68, 65, 84>>

IHDR == <<73, 72, 68, 82>>

IEND == <<73, 69, 78, 68>>

ChunkTypes == {IHDR, acTL, IDAT, IEND}

\* The chunk data tried: none, and four bytes that spell a chunk type.
DataSamples == {<< >>, acTL}

\* The first bytes tried for a file: the signature, the signature with its
\* first byte changed, with its first two bytes swapped, a GIF header, half a
\* signature and nothing.
HeaderSamples ==
    { PngSignature,
      <<136, 80, 78, 71, 13, 10, 26, 10>>,
      <<80, 137, 78, 71, 13, 10, 26, 10>>,
      <<71, 73, 70, 56, 57, 97, 1, 0>>,
      <<137, 80, 78, 71>>,
      << >> }

\* The bytes tried after the last chunk: none, a single byte, and a length
\* with one byte of a type.
TailSamples == {<< >>, <<0>>, <<0, 0, 0, 5, 97>>}

\* The 4 bytes of a chunk's length field.
Uint32Bytes(n) ==
    <<(n \div 16777216) % 256, (n \div 65536) % 256, (n \div 256) % 256, n % 256>>

\* A chunk as the file holds it: length of the data, type, data, CRC. The
\* CRC is never read, zeros stand for it.
EncodeChunk(c) == Uint32Bytes(Len(c.data)) \o c.type \o c.data \o <<0, 0, 0, 0>>

RECURSIVE EncodeChunks(_)
\* The chunks of a list, one after the other.
EncodeChunks(list) ==
    IF list = << >> THEN << >>
    ELSE EncodeChunk(Head(list)) \o EncodeChunks(Tail(list))

\* The bytes of a file: blob.arrayBuffer() (Image.ts line 89)
BlobBytes(b) == b.header \o EncodeChunks(b.chunks) \o b.tail

\* The chunk lists tried.
ChunkLists ==
    UNION {[1..n -> [type : ChunkTypes, data : DataSamples]] : n \in 0..MaxChunks}

\* The files tried: every chunk list after the signature, and the other
\* headers and tails around at most one chunk.
PngBlobs ==
    {b \in [header : HeaderSamples, chunks : ChunkLists, tail : TailSamples] :
        \/ b.header = PngSignature /\ b.tail = << >>
        \/ Len(b.chunks) <= 1}

\* i after a chunk that is neither acTL nor IDAT: 4 bytes of length, 4 of
\* type, the data and 4 of CRC (Image.ts lines 102, 104, 112).
NextChunk_SkipsNoCrc(at, length) == at + 4 + 4 + length

NextChunk(at, length) == at + 4 + 4 + length + 4

\* The offset of the k-th chunk of a file that starts with the signature.
RECURSIVE ChunkStart(_, _)
ChunkStart(list, k) ==
    IF k = 1 THEN 8
    ELSE ChunkStart(list, k - 1) + Len(list[k - 1].data) + 12

\* An acTL chunk occurs before the first IDAT chunk.
ActlBeforeIdat(list) ==
    \E k \in DOMAIN list :
        /\ list[k].type = acTL
        /\ \A j \in 1..(k - 1) : list[j].type # IDAT

\* The number of chunks up to and including the first acTL or IDAT chunk, all
\* chunks when there is none.
ScanLength(list) ==
    LET decisive == {k \in DOMAIN list : list[k].type \in {acTL, IDAT}}
    IN IF decisive = {} THEN Len(list)
       ELSE CHOOSE k \in decisive : \A j \in decisive : k <= j

\* --------------------------------------------------------------- state

VARIABLES
    apps,       \* the registry's widget list for the room (WidgetStore.getApps)
    persisted,  \* the persisted explicit layout of the room, by widget id
    layout,     \* the in-memory RoomLayout of the room
    fresh,      \* layout was computed by recalculateRoom for the current apps
    last,       \* the last call: operation, outcome, notifications emitted
    height,     \* the height stored for the room's Top container
    heightSet,  \* setContainerHeight stored a height for the room at some time
    written,    \* the content copyLayoutToRoom last sent to the room
    pending,    \* write-through calls in flight: layouts being persisted
    writeLog,   \* what the Persistence Bridge logged for the last write done
    focused,    \* document.hasFocus()
    activeLeft, \* seconds the "active" countdown has left, 0 when not running
    passiveLeft, \* seconds the "passive" countdown has left, 0 when not running
    idle,       \* seconds since the last activity signal taken with focus kept
    event,      \* the last event of the presence timer and what preceded it
    view,       \* the DataView blobIsAnimated reads the image through
    pc,         \* the position of blobIsAnimated
    offset,     \* the offset of the Graphics Control Extension in the view
    delayTime,  \* blobIsAnimated's local delayTime
    animated,   \* the value blobIsAnimated resolves to
    blob,       \* the PNG file given: its first bytes, its chunks, what follows
    arr,        \* the bytes of the file: await blob.arrayBuffer()
    chunkAt,    \* the loop variable i of the chunk scan
    visited     \* the offsets at which the scan has read a chunk so far

storeVars == <<apps, persisted, layout, fresh, last>>

heightVars == <<height, heightSet, written>>

persistVars == <<pending, writeLog>>

activityVars == <<focused, activeLeft, passiveLeft, idle, event>>

pngVars == <<blob, arr, chunkAt, visited>>

imageVars == <<view, pc, offset, delayTime, animated, pngVars>>

\* The variables the layout operations of section 4.1 and 4.2 never touch.
notStore == <<heightVars, persistVars, activityVars, imageVars>>

vars == <<storeVars, notStore>>

Call(op, result, emitted) == [op |-> op, result |-> result, emitted |-> emitted]

\* A presence-timer event: what happened, and the answer of
\* userCurrentlyPassive() just before it.
Event(op, wasPassive) == [op |-> op, wasPassive |-> wasPassive]

\* new WidgetLayoutStore(): no room laid out yet.
StoreInit ==
    /\ apps = AscendingSeq(Widgets)
    /\ persisted = NoPersisted
    /\ layout = EmptyLayout
    /\ fresh = FALSE
    /\ last = Call("constructor", "ok", 0)

HeightInit ==
    /\ height = NoHeight
    /\ heightSet = FALSE
    /\ written = NothingWritten

\* No write-through in flight.
PersistInit ==
    /\ pending = <<>>
    /\ writeLog = "none"

\* new UserActivity(window, document); start(): both countdowns stopped.
ActivityInit ==
    /\ focused = FALSE
    /\ activeLeft = 0
    /\ passiveLeft = 0
    /\ idle = Never
    /\ event = Event("start", FALSE)

\* No PNG file was given.
NoBlob == [header |-> << >>, chunks |-> << >>, tail |-> << >>]

\* The chunk scan has not started.
PngInit ==
    /\ blob = NoBlob
    /\ arr = << >>
    /\ chunkAt = 0
    /\ visited = << >>

\* blobIsAnimated is not running.
ImageInit ==
    /\ view = <<>>
    /\ pc = "idle"
    /\ offset = 0
    /\ delayTime = 0
    /\ animated = FALSE
    /\ PngInit

Init ==
    /\ StoreInit
    /\ HeightInit
    /\ PersistInit
    /\ ActivityInit
    /\ ImageInit

\* Step 1 and steps 2-6 of recalculateRoom for registry list a and persisted
\* layout p.
RecalculatedLayout(a, p) == IF a = <<>> THEN EmptyLayout ELSE Recalculate(a, p)

\* Clearing the layout of a room without widgets emits nothing.
RecalculateEmits_SilentClear(a, l) == IF a = <<>> THEN 0 ELSE 1

\* Notifications recalculateRoom emits: none when the widget list is empty and
\* the layout l was already empty, one otherwise.
RecalculateEmits(a, l) == IF a = <<>> /\ l = EmptyLayout THEN 0 ELSE 1

\* recalculateRoom(room)
recalculateRoom ==
    /\ layout' = RecalculatedLayout(apps, persisted)
    /\ fresh' = TRUE
    /\ last' = Call("recalculateRoom", "ok", RecalculateEmits(apps, layout))
    /\ UNCHANGED <<apps, persisted>>
    /\ UNCHANGED notStore

\* moveToContainer(room, w, c)
moveToContainer(w, c) ==
    LET outcome == MoveOutcome(layout, w, c)
        after == MoveResult(layout, apps, w, c)
    IN /\ layout' = after
       /\ persisted' = IF outcome = "ok" THEN Serialize(after) ELSE persisted
       /\ last' = Call("moveToContainer", outcome, IF outcome = "ok" THEN 1 ELSE 0)
       /\ UNCHANGED <<apps, fresh>>
       /\ UNCHANGED notStore

\* moveWithinContainer(room, c, w, targetIndex)
moveWithinContainer(c, w, i) ==
    LET after == ReorderResult(layout, c, w, i)
        found == w \in Range(getContainerWidgets(layout, c))
    IN /\ layout' = after
       /\ persisted' = IF found THEN Serialize(after) ELSE persisted
       /\ last' = Call("moveWithinContainer",
                       IF found THEN "ok" ELSE "noop", IF found THEN 1 ELSE 0)
       /\ UNCHANGED <<apps, fresh>>
       /\ UNCHANGED notStore

\* canAddToContainer(room, c), called by the UI before a move
canAdd(c) ==
    /\ last' = Call("canAddToContainer",
                    IF canAddToContainer(layout, c) THEN "true" ELSE "false", 0)
    /\ UNCHANGED <<apps, persisted, layout, fresh>>
    /\ UNCHANGED notStore

\* Notifications on_client_not_viable emits for the room: one when its layout
\* l is affected, none when it was already empty.
NotViableEmits(l) == IF l = EmptyLayout THEN 0 ELSE 1

\* The signal is ignored and the layouts stay.
onClientNotViable_KeepsLayout ==
    /\ last' = Call("on_client_not_viable", "ok", 0)
    /\ UNCHANGED <<apps, persisted, layout, fresh>>
    /\ UNCHANGED notStore

\* The dispatcher delivers on_client_not_viable: the in-memory layouts are
\* dropped, the registry and the persisted layout are not touched.
onClientNotViable ==
    /\ layout' = EmptyLayout
    /\ fresh' = FALSE
    /\ last' = Call("on_client_not_viable", "ok", NotViableEmits(layout))
    /\ UNCHANGED <<apps, persisted>>
    /\ UNCHANGED notStore

\* The registry reports another widget list for the room and the room is
\* recalculated (Registry Adapter change -> recalculateRoom). The lists tried
\* are the prefixes of mockApps, the empty list included.
registryChanged(S) ==
    /\ AscendingSeq(S) # apps
    /\ apps' = AscendingSeq(S)
    /\ layout' = RecalculatedLayout(apps', persisted)
    /\ fresh' = TRUE
    /\ last' = Call("recalculateRoom", "ok", RecalculateEmits(apps', layout))
    /\ UNCHANGED persisted
    /\ UNCHANGED notStore

\* Another session changes the persisted placement of widget w and the room is
\* recalculated from the persisted layout.
persistedChanged(w, e) ==
    /\ persisted[w] # e
    /\ persisted' = [persisted EXCEPT ![w] = e]
    /\ layout' = RecalculatedLayout(apps, persisted')
    /\ fresh' = TRUE
    /\ last' = Call("recalculateRoom", "ok", RecalculateEmits(apps, layout))
    /\ UNCHANGED apps
    /\ UNCHANGED notStore

\* setContainerHeight(room, Top, h)
setContainerHeight(h) ==
    /\ height' = StoredHeight(h)
    /\ heightSet' = TRUE
    /\ UNCHANGED <<storeVars, written, persistVars, activityVars, imageVars>>

\* copyLayoutToRoom(room), the Top container holding the widths ws
copyLayoutToRoom(ws) ==
    /\ written' = CopyLayout(layout, height, ws)
    /\ UNCHANGED <<storeVars, height, heightSet, persistVars, activityVars, imageVars>>

\* The target indexes tried for container c: every position of a full Top (of
\* a full Center for the containers whose listing order no index changes), and
\* one position before and one after them (which clamp).
TargetIndexes(c) == IF c = "top" THEN (-1)..MAX_PINNED ELSE (-1)..MAX_CENTER

\* The calls of one session on the room, and the registry's changes.
Next ==
    \/ recalculateRoom
    \/ \E w \in Widgets, c \in Containers : moveToContainer(w, c)
    \/ \E c \in Containers, w \in Widgets :
          \E i \in TargetIndexes(c) : moveWithinContainer(c, w, i)
    \/ \E c \in Containers : canAdd(c)
    \/ onClientNotViable
    \/ \E k \in 0..NumWidgets : registryChanged(1..k)

Spec == Init /\ [][Next]_vars

\* The layout operations of one session while other sessions rewrite the
\* persisted layout of the room. Reordering is tried in Top with the indexes
\* of its positions: target indexes that clamp and the containers whose
\* listing no index changes add no layout to these.
NextShared ==
    \/ recalculateRoom
    \/ \E w \in Widgets, c \in Containers : moveToContainer(w, c)
    \/ \E w \in Widgets :
          \E i \in 0..(MAX_PINNED - 1) : moveWithinContainer("top", w, i)
    \/ \E k \in 0..NumWidgets : registryChanged(1..k)
    \/ \E w \in Widgets, e \in Entries : persistedChanged(w, e)

SpecShared == Init /\ [][NextShared]_vars

\* ------------------------------------------------------ write-through

\* moveToContainer(room, w, c), the write-through still in flight when the
\* call returns: the layout is mutated and notified, the serialized layout is
\* handed to the Persistence Bridge.
moveToContainerWriteThrough(w, c) ==
    LET outcome == MoveOutcome(layout, w, c)
        after == MoveResult(layout, apps, w, c)
    IN /\ outcome = "ok" => Len(pending) < MaxPending
       /\ layout' = after
       /\ pending' = IF outcome = "ok" THEN Append(pending, Serialize(after)) ELSE pending
       /\ last' = Call("moveToContainer", outcome, IF outcome = "ok" THEN 1 ELSE 0)
       /\ UNCHANGED <<apps, fresh, persisted, writeLog>>
       /\ UNCHANGED <<heightVars, activityVars, imageVars>>

\* moveWithinContainer(room, c, w, targetIndex), the write-through in flight
moveWithinContainerWriteThrough(c, w, i) ==
    LET after == ReorderResult(layout, c, w, i)
        found == w \in Range(getContainerWidgets(layout, c))
    IN /\ found => Len(pending) < MaxPending
       /\ layout' = after
       /\ pending' = IF found THEN Append(pending, Serialize(after)) ELSE pending
       /\ last' = Call("moveWithinContainer",
                       IF found THEN "ok" ELSE "noop", IF found THEN 1 ELSE 0)
       /\ UNCHANGED <<apps, fresh, persisted, writeLog>>
       /\ UNCHANGED <<heightVars, activityVars, imageVars>>

\* The oldest write in flight reaches the shared room state.
writeSucceeds ==
    /\ pending # <<>>
    /\ persisted' = Head(pending)
    /\ pending' = Tail(pending)
    /\ writeLog' = "ok"
    /\ UNCHANGED <<apps, layout, fresh, last>>
    /\ UNCHANGED <<heightVars, activityVars, imageVars>>

\* A failed write rolls the room back to the persisted layout.
LayoutAfterFailedWrite_RollsBack(l, a, p) == RecalculatedLayout(a, p)

\* The in-memory layout after a write of it failed: kept (local-first).
LayoutAfterFailedWrite(l, a, p) == l

\* The oldest write in flight fails: the Persistence Bridge logs it, the
\* persisted layout stays as it was.
writeFails ==
    /\ pending # <<>>
    /\ pending' = Tail(pending)
    /\ writeLog' = "failed"
    /\ layout' = LayoutAfterFailedWrite(layout, apps, persisted)
    /\ UNCHANGED <<apps, persisted, fresh, last>>
    /\ UNCHANGED <<heightVars, activityVars, imageVars>>

\* A room with the first PersistWidgets widgets of mockApps.
InitPersist ==
    /\ apps = AscendingSeq(1..PersistWidgets)
    /\ persisted = NoPersisted
    /\ layout = EmptyLayout
    /\ fresh = FALSE
    /\ last = Call("constructor", "ok", 0)
    /\ HeightInit
    /\ PersistInit
    /\ ActivityInit
    /\ ImageInit

\* The layout operations of one session on the widgets of the room, with the
\* write-through in flight.
NextPersist ==
    \/ recalculateRoom
    \/ \E w \in Range(apps), c \in Containers : moveToContainerWriteThrough(w, c)
    \/ \E c \in Containers, w \in Range(apps) :
          \E i \in TargetIndexes(c) : moveWithinContainerWriteThrough(c, w, i)
    \/ writeSucceeds
    \/ writeFails

SpecPersist == InitPersist /\ [][NextPersist]_vars

\* ------------------------------------------------------ presence timer

\* userCurrentlyActive()
userCurrentlyActive == activeLeft > 0

\* userCurrentlyPassive()
userCurrentlyPassive == passiveLeft > 0

\* An activity signal counts whatever the focus.
SignalCounts_Always(f) == TRUE

\* An activity signal is taken only while the document has focus.
SignalCounts(f) == f

\* A running active countdown is left to run out.
ActiveAfterSignal_NoRestart(left) == IF left > 0 THEN left ELSE ActiveWindow

\* The active countdown after a signal that counts: started or restarted.
ActiveAfterSignal(left) == ActiveWindow

\* A running passive countdown is left to run out.
PassiveAfterSignal_NoRestart(left) == IF left > 0 THEN left ELSE PassiveWindow

\* The passive countdown after a signal that counts: started or restarted.
PassiveAfterSignal(left) == PassiveWindow

\* The blur leaves the passive countdown running.
PassiveAfterBlur_KeepsRunning(left) == left

\* The passive countdown after the window lost focus: aborted.
PassiveAfterBlur(left) == 0

\* A countdown one second later.
Elapse(left) == IF left > 0 THEN left - 1 ELSE 0

\* _onUserActivity(event)
onUserActivity ==
    LET taken == SignalCounts(focused)
    IN /\ activeLeft' = IF taken THEN ActiveAfterSignal(activeLeft) ELSE activeLeft
       /\ passiveLeft' = IF taken THEN PassiveAfterSignal(passiveLeft) ELSE passiveLeft
       /\ idle' = IF taken THEN 0 ELSE idle
       /\ event' = Event("activity", userCurrentlyPassive)
       /\ UNCHANGED <<focused, storeVars, heightVars, persistVars, imageVars>>

\* clock.tick(1000): one second passes. The time since the last signal is
\* counted up to the passive window; beyond it nothing depends on it.
tick ==
    /\ activeLeft' = Elapse(activeLeft)
    /\ passiveLeft' = Elapse(passiveLeft)
    /\ idle' = IF idle = Never \/ idle = PassiveWindow THEN idle ELSE idle + 1
    /\ event' = Event("tick", userCurrentlyPassive)
    /\ UNCHANGED <<focused, storeVars, heightVars, persistVars, imageVars>>

\* The document loses focus and the window emits 'blur': both countdowns are
\* aborted.
blur ==
    /\ focused
    /\ focused' = FALSE
    /\ activeLeft' = 0
    /\ passiveLeft' = PassiveAfterBlur(passiveLeft)
    /\ idle' = Never
    /\ event' = Event("blur", userCurrentlyPassive)
    /\ UNCHANGED <<storeVars, heightVars, persistVars, imageVars>>

\* The document gets focus (hasFocus() answers true from now on).
focus ==
    /\ ~focused
    /\ focused' = TRUE
    /\ event' = Event("focus", userCurrentlyPassive)
    /\ UNCHANGED <<activeLeft, passiveLeft, idle>>
    /\ UNCHANGED <<storeVars, heightVars, persistVars, imageVars>>

NextActivity == onUserActivity \/ tick \/ blur \/ focus

SpecActivity == Init /\ [][NextActivity]_vars

\* ------------------------------------------- blobIsAnimated("image/gif")

\* blobIsAnimated("image/gif", blob) is called with a blob read through view.
InitImage ==
    /\ StoreInit
    /\ HeightInit
    /\ PersistInit
    /\ ActivityInit
    /\ view \in {GifView(packed, first, second, hi, lo) :
                    packed \in PackedSamples, first \in ByteSamples,
                    second \in ByteSamples, hi \in DelaySamples, lo \in DelaySamples}
    /\ pc = "gif"
    /\ offset = 0
    /\ delayTime = 0
    /\ animated = FALSE
    /\ PngInit

\* Lines 58-70: the offset of the Graphics Control Extension.
gifReadHeader ==
    /\ pc = "gif"
    /\ offset' = 3 + GlobalColorTableSize(getUint8(view, 0))
    /\ pc' = "extension"
    /\ UNCHANGED <<view, delayTime, animated>>
    /\ UNCHANGED <<storeVars, heightVars, persistVars, activityVars, pngVars>>

\* Lines 72-81: the delay time is read when the two bytes pass the test.
gifReadExtension ==
    /\ pc = "extension"
    /\ delayTime' =
          IF IsGraphicsControl(getUint8(view, offset), getUint8(view, offset + 1))
              THEN getUint16(view, offset + 4)
          ELSE 0
    /\ pc' = "return"
    /\ UNCHANGED <<view, offset, animated>>
    /\ UNCHANGED <<storeVars, heightVars, persistVars, activityVars, pngVars>>

\* Line 83: return !!delayTime
gifReturn ==
    /\ pc = "return"
    /\ animated' = (delayTime # 0)
    /\ pc' = "done"
    /\ UNCHANGED <<view, offset, delayTime>>
    /\ UNCHANGED <<storeVars, heightVars, persistVars, activityVars, pngVars>>

NextImage == gifReadHeader \/ gifReadExtension \/ gifReturn

SpecImage == InitImage /\ [][NextImage]_vars

\* ------------------------------- blobIsAnimated("image/png" / "image/apng")

\* blobIsAnimated("image/png", blob) or ("image/apng", blob) is called: both
\* mime types run the same branch (Image.ts lines 86-87).
InitPng ==
    /\ StoreInit
    /\ HeightInit
    /\ PersistInit
    /\ ActivityInit
    /\ view = << >>
    /\ pc = "png"
    /\ offset = 0
    /\ delayTime = 0
    /\ animated = FALSE
    /\ blob \in PngBlobs
    /\ arr = << >>
    /\ chunkAt = 0
    /\ visited = << >>

\* Lines 89-100: the buffer is read and its first 8 bytes are compared with
\* the signature; on a difference the result is false, else i starts at 8.
pngCheckSignature ==
    /\ pc = "png"
    /\ arr' = BlobBytes(blob)
    /\ IF arrayHasDiff(PngSignature, arrayBufferRead(arr', 0, 8))
          THEN /\ animated' = FALSE
               /\ pc' = "done"
               /\ UNCHANGED chunkAt
          ELSE /\ chunkAt' = 8
               /\ pc' = "loop"
               /\ UNCHANGED animated
    /\ UNCHANGED <<blob, visited, view, offset, delayTime>>
    /\ UNCHANGED <<storeVars, heightVars, persistVars, activityVars>>

\* Lines 100-113: one turn of the loop. The length is read (the read throws
\* when fewer than 4 bytes are left), then the type: acTL resolves to true,
\* IDAT to false, any other type moves i past the chunk.
pngReadChunk ==
    /\ pc = "loop"
    /\ chunkAt < Len(arr)
    /\ visited' = Append(visited, chunkAt)
    /\ IF ReadIntThrows(arr, chunkAt)
          THEN /\ pc' = "thrown"
               /\ UNCHANGED <<chunkAt, animated>>
          ELSE LET length == arrayBufferReadInt(arr, chunkAt)
                   type == arrayBufferReadStr(arr, chunkAt + 4, 4)
               IN CASE type = acTL ->
                         /\ animated' = TRUE
                         /\ pc' = "done"
                         /\ chunkAt' = chunkAt + 4 + 4
                    [] type = IDAT ->
                         /\ animated' = FALSE
                         /\ pc' = "done"
                         /\ chunkAt' = chunkAt + 4 + 4
                    [] OTHER ->
                         /\ chunkAt' = NextChunk(chunkAt, length)
                         /\ pc' = "loop"
                         /\ UNCHANGED animated
    /\ UNCHANGED <<blob, arr, view, offset, delayTime>>
    /\ UNCHANGED <<storeVars, heightVars, persistVars, activityVars>>

\* Lines 100, 114, 118: i has reached blob.size, the loop ends and the
\* result is false.
pngLoopEnds ==
    /\ pc = "loop"
    /\ ~(chunkAt < Len(arr))
    /\ animated' = FALSE
    /\ pc' = "done"
    /\ UNCHANGED <<blob, arr, chunkAt, visited, view, offset, delayTime>>
    /\ UNCHANGED <<storeVars, heightVars, persistVars, activityVars>>

NextPng == pngCheckSignature \/ pngReadChunk \/ pngLoopEnds

\* Once called, blobIsAnimated runs on: nothing but the awaited buffer stands
\* between two of its steps.
SpecPng == InitPng /\ [][NextPng]_vars /\ WF_vars(NextPng)

\* Laying out, moving and setting the Top height.
NextHeight ==
    \/ recalculateRoom
    \/ \E w \in Widgets, c \in Containers : moveToContainer(w, c)
    \/ \E h \in Heights : setContainerHeight(h)
    \/ onClientNotViable

SpecHeight == Init /\ [][NextHeight]_vars

\* The store at the time a layout is copied to the room: earlier calls of
\* setContainerHeight have left a Top height, or none was ever set.
InitCopy ==
    /\ StoreInit
    /\ height \in Heights \cup {NoHeight}
    /\ heightSet = (height # NoHeight)
    /\ written = NothingWritten
    /\ PersistInit
    /\ ActivityInit
    /\ ImageInit

\* Laying out, moving and copying the layout to the room.
NextCopy ==
    \/ recalculateRoom
    \/ \E w \in Widgets, c \in Containers : moveToContainer(w, c)
    \/ \E ws \in Distributions(Len(layout.top)) : copyLayoutToRoom(ws)

SpecCopy == InitCopy /\ [][NextCopy]_vars

\* ---------------------------------------------------------------- claims

\* Number of places widget w holds in layout l, over all three containers.
Occurrences(l, w) ==
    Cardinality({i \in DOMAIN l.top : l.top[i] = w})
        + Cardinality({i \in DOMAIN l.center : l.center[i] = w})
        + Cardinality({i \in DOMAIN l.right : l.right[i] = w})

\* C1: once recalculateRoom has laid out a room with a non-empty widget list,
\* and after any moveToContainer / moveWithinContainer / recalculateRoom calls
\* that follow, every widget the registry reports is in exactly one of Top,
\* Center, Right: none is missing, none is listed twice.
C1_ExactlyOneContainer ==
    (fresh /\ apps # <<>>) => \A w \in Range(apps) : Occurrences(layout, w) = 1

\* C1 witness: all four widgets laid out over the three containers after moves.
C1_Witness ==
    /\ fresh
    /\ Len(apps) = 4
    /\ last.op = "moveToContainer"
    /\ last.result = "ok"
    /\ Len(layout.top) = 2
    /\ Len(layout.right) = 2
    /\ \A w \in Range(apps) : Occurrences(layout, w) = 1

\* C2: in every reachable state Top holds at most 3 widgets and Center at most
\* 1 widget.
C2_Capacities == Len(layout.top) <= 3 /\ Len(layout.center) <= 1

\* C2 witness: both containers are full at once.
C2_Witness == Len(layout.top) = 3 /\ Len(layout.center) = 1

\* C3: when Top holds 3 widgets, moveToContainer(room, w, Top) for a fourth
\* widget w of the room reports the failure outcome, leaves Top's members and
\* order as they were and leaves w in the container it was in.
C3_FourthPinRefused ==
    [][\A w \in Widgets :
        (/\ last'.op = "moveToContainer"
         /\ Len(layout.top) = 3
         /\ w \in Placed(layout)
         /\ w \notin Range(layout.top)
         /\ moveToContainer(w, "top"))
        => (/\ last'.result = "CapacityExceeded"
            /\ layout'.top = layout.top
            /\ \A c \in Containers : (w \in Range(layout'[c])) = (w \in Range(layout[c])))]_vars

\* C3 witness: a move to the full Top has just been refused.
C3_Witness ==
    /\ last.op = "moveToContainer"
    /\ last.result = "CapacityExceeded"
    /\ Len(layout.top) = 3
    /\ Len(layout.right) = 1

\* C4: after moveToContainer(room, w, Center) for a widget w of a laid-out
\* room, Center is exactly [w], Top is empty and every other widget of the room
\* is in Right.
C4_MaximiseClearsTop ==
    [][\A w \in Widgets :
        (/\ last'.op = "moveToContainer"
         /\ fresh
         /\ w \in Range(apps)
         /\ moveToContainer(w, "center"))
        => (/\ layout'.center = <<w>>
            /\ layout'.top = <<>>
            /\ Range(layout'.right) = Range(apps) \ {w})]_vars

\* C4 witness: widget 1 is maximised and the three other widgets are in Right.
C4_Witness ==
    /\ fresh
    /\ last.op = "moveToContainer"
    /\ last.result = "ok"
    /\ layout.center = <<1>>
    /\ layout.top = <<>>
    /\ layout.right = <<2, 3, 4>>

\* C5 (as stated): moveToContainer(room, w, Center) moves only w and the
\* previous Center occupant; the widgets of Top other than w stay in Top in
\* the same order.
C5_TopUnchanged ==
    [][\A w \in Widgets :
        (/\ last'.op = "moveToContainer"
         /\ fresh
         /\ w \in Range(apps)
         /\ moveToContainer(w, "center"))
        => (/\ layout'.top = Remove(layout.top, w)
            /\ Range(layout.center) \ {w} \subseteq Range(layout'.right))]_vars

\* C5 (amended): moveToContainer(room, w, Center) relocates the previous Center
\* occupant and every widget of Top other than w to Right, keeps the widgets
\* of Right other than w in Right, and takes w out of Top and Right.
C5_MaximiseRelocatesToRight ==
    [][\A w \in Widgets :
        (/\ last'.op = "moveToContainer"
         /\ fresh
         /\ w \in Range(apps)
         /\ moveToContainer(w, "center"))
        => (/\ Range(layout.center) \ {w} \subseteq Range(layout'.right)
            /\ Range(layout.top) \ {w} \subseteq Range(layout'.right)
            /\ Range(layout.right) \ {w} \subseteq Range(layout'.right)
            /\ w \notin Range(layout'.top) \cup Range(layout'.right))]_vars

\* C5 witness: widget 4 is maximised and the widgets pinned before are in Right.
C5_Witness ==
    /\ fresh
    /\ last.op = "moveToContainer"
    /\ last.result = "ok"
    /\ layout.center = <<4>>
    /\ layout.top = <<>>
    /\ layout.right = <<1, 2, 3>>

\* C6: after a successful moveToContainer(room, w, Top) on a laid-out room, w
\* is in Top, Center is empty, and the widget that was in Center before (w
\* excepted) is in Right.
C6_PinClearsCenter ==
    [][\A w \in Widgets :
        (/\ last'.op = "moveToContainer"
         /\ last'.result = "ok"
         /\ fresh
         /\ w \in Range(apps)
         /\ moveToContainer(w, "top"))
        => (/\ w \in Range(layout'.top)
            /\ layout'.center = <<>>
            /\ Range(layout.center) \ {w} \subseteq Range(layout'.right))]_vars

\* C6 witness: widget 2 is pinned, nothing is maximised, the rest is in Right.
C6_Witness ==
    /\ fresh
    /\ last.op = "moveToContainer"
    /\ last.result = "ok"
    /\ layout.top = <<2>>
    /\ layout.center = <<>>
    /\ layout.right = <<1, 3, 4>>

\* C7: canAddToContainer(room, c) answers false exactly when c is Top and Top
\* holds 3 widgets or c is Center and Center holds 1 widget, true in every
\* other case, and changes neither the layout, the persisted layout nor the
\* widget list.
C7_CanAddIsCapacityCheck ==
    [][\A c \in Containers :
        (last'.op = "canAddToContainer" /\ canAdd(c))
        => (/\ (last'.result = "false")
                  = ((c = "top" /\ Len(layout.top) = 3)
                        \/ (c = "center" /\ Len(layout.center) = 1))
            /\ (last'.result = "true")
                  = ~((c = "top" /\ Len(layout.top) = 3)
                        \/ (c = "center" /\ Len(layout.center) = 1))
            /\ layout' = layout
            /\ persisted' = persisted
            /\ apps' = apps)]_vars

\* C7 witness: with Top full and Center empty the check has answered false.
C7_Witness ==
    /\ last.op = "canAddToContainer"
    /\ last.result = "false"
    /\ Len(layout.top) = 3
    /\ layout.center = <<>>

\* C8: recalculateRoom on a room without persisted layout puts every widget of
\* the room in Right and leaves Top and Center empty.
C8_DefaultIsRight ==
    (last.op = "recalculateRoom" /\ persisted = NoPersisted)
        => (/\ layout.top = <<>>
            /\ layout.center = <<>>
            /\ Len(layout.right) = Len(apps)
            /\ Range(layout.right) = Range(apps))

\* C8 witness: the four widgets of the room are in Right after recalculation.
C8_Witness ==
    /\ last.op = "recalculateRoom"
    /\ persisted = NoPersisted
    /\ Len(apps) = 4
    /\ Len(layout.right) = 4

\* C9: when recalculateRoom runs with an empty widget list on a room that had
\* widgets laid out, the three containers are empty afterwards and exactly one
\* change notification is emitted.
C9_ClearEmitsOnce ==
    [][(/\ last'.op = "recalculateRoom"
        /\ apps' = <<>>
        /\ layout # EmptyLayout)
       => (/\ layout'.top = <<>>
           /\ layout'.center = <<>>
           /\ layout'.right = <<>>
           /\ last'.emitted = 1)]_vars

\* C9 witness: the room lost its widgets and the clearing was notified.
C9_Witness ==
    /\ last.op = "recalculateRoom"
    /\ apps = <<>>
    /\ last.emitted = 1
    /\ layout = EmptyLayout

\* C10: after on_client_not_viable the three containers of the room are empty,
\* also while the registry still reports widgets for it.
C10_NotViableClears ==
    last.op = "on_client_not_viable"
        => (layout.top = <<>> /\ layout.center = <<>> /\ layout.right = <<>>)

\* C10 witness: a laid-out room with four widgets has just been cleared.
C10_Witness ==
    /\ last.op = "on_client_not_viable"
    /\ Len(apps) = 4
    /\ last.emitted = 1
    /\ layout = EmptyLayout

C12_HeightUnsetUntilSet ==
    /\ (~heightSet => getContainerHeight(height, "top") = NoHeight)
    /\ [][/\ ~heightSet' => (/\ getContainerHeight(height', "top") = NoHeight
                              /\ getContainerHeight(height', "top") # 0)
          /\ \A h \in Heights :
                (/\ heightSet'
                 /\ layout' = layout
                 /\ Len(layout.top) >= 1
                 /\ setContainerHeight(h))
                => getContainerHeight(height', "top") = h]_vars

\* C12 witness: two widgets are pinned and the Top height is the explicit 0.
C12_Witness ==
    /\ heightSet
    /\ layout.top = <<1, 2>>
    /\ getContainerHeight(height, "top") = 0

\* C13: copyLayoutToRoom on a laid-out room writes one entry per widget of the
\* room; the entry of a widget in Right carries only the container tag, the
\* entry of a widget in Top carries container, index, width and height, the
\* indexes of the Top entries are distinct and the height is the same on
\* every Top entry.
C13_CopyWritesEntries ==
    [][\A ws \in Distributions(Len(layout.top)) :
        (/\ fresh
         /\ written' # written
         /\ copyLayoutToRoom(ws))
        => (/\ DOMAIN written' = Range(apps)
            /\ \A w \in Range(layout.right) :
                  /\ DOMAIN written'[w] = {"container"}
                  /\ written'[w].container = "right"
            /\ \A w \in Range(layout.top) :
                  /\ DOMAIN written'[w] = {"container", "index", "width", "height"}
                  /\ written'[w].container = "top"
            /\ \A w, v \in Range(layout.top) :
                  /\ w # v => written'[w].index # written'[v].index
                  /\ written'[w].height = written'[v].height)]_vars

\* C13 witness: the copied layout of the tests: Top = [2, 3, 1] with widths
\* 10, 26, 64 and height 23, widget 4 in Right.
C13_Witness ==
    /\ fresh
    /\ layout.top = <<2, 3, 1>>
    /\ written = (1 :> [container |-> "top", index |-> 2, width |-> 64, height |-> 23])
                  @@ (2 :> [container |-> "top", index |-> 0, width |-> 10, height |-> 23])
                  @@ (3 :> [container |-> "top", index |-> 1, width |-> 26, height |-> 23])
                  @@ (4 :> [container |-> "right"])

\* C14: with the document focused, userCurrentlyActive() is true right after an
\* activity signal and as long as less than 10 seconds have passed since the
\* last signal, and false once 10 seconds have passed without a new one.
C14_ActiveForTenSeconds ==
    (focused /\ idle # Never)
        => /\ idle = 0 => userCurrentlyActive
           /\ idle < 10 => userCurrentlyActive
           /\ idle >= 10 => ~userCurrentlyActive

\* C14 witness: ten seconds after the last signal the user is no longer active.
C14_Witness ==
    /\ focused
    /\ idle = 10
    /\ event = Event("tick", TRUE)
    /\ ~userCurrentlyActive

\* C15: with the document focused, userCurrentlyPassive() is measured from the
\* most recent activity signal: true 10 seconds after it, true up to 1 minute
\* after it however many signals came before, false once 3 minutes have
\* passed without a signal.
C15_PassiveFromLastSignal ==
    (focused /\ idle # Never)
        => /\ idle = 10 => userCurrentlyPassive
           /\ idle <= 60 => userCurrentlyPassive
           /\ idle >= 180 => ~userCurrentlyPassive

\* C15 witness: one minute after the latest signal of a run the passive
\* countdown, restarted by it, has two minutes left.
C15_Witness ==
    /\ focused
    /\ idle = SignalSpacing
    /\ passiveLeft = PassiveWindow - SignalSpacing
    /\ userCurrentlyPassive

\* C16: when the window loses focus while the user is passive,
\* userCurrentlyPassive() is false right after the blur.
C16_BlurEndsPassive ==
    [][(/\ event'.op = "blur"
        /\ userCurrentlyPassive
        /\ blur)
       => ~(passiveLeft' > 0)]_vars

\* C16 witness: the blur came while the user was passive and no longer active.
C16_Witness ==
    /\ event = Event("blur", TRUE)
    /\ ~focused
    /\ ~userCurrentlyPassive

\* C17: after an activity signal received while the document has no focus,
\* userCurrentlyActive() and userCurrentlyPassive() are both false, as they are
\* when nothing has happened since start().
C17_NoFocusNoWindow ==
    (event.op = "start" \/ (event.op = "activity" /\ ~focused))
        => (~userCurrentlyActive /\ ~userCurrentlyPassive)

\* C17 witness: a signal arrived while the document had no focus.
C17_Witness ==
    /\ event = Event("activity", FALSE)
    /\ ~focused
    /\ idle = Never
    /\ ~userCurrentlyActive
    /\ ~userCurrentlyPassive

\* The widgets of the room the persisted layout places in Top.
WantedInTop == {w \in Range(apps) : persisted[w].container = "top"}

\* C18: when recalculateRoom finds a persisted layout that places more than 3
\* of the room's widgets in Top, Top holds exactly 3 of them, none of the ones
\* left out has a lower persisted ordinal index than one that got in, and
\* every one left out is in Right.
C18_TopOverflowTruncated ==
    (last.op = "recalculateRoom" /\ Cardinality(WantedInTop) > 3)
        => /\ Len(layout.top) = 3
           /\ Cardinality(Range(layout.top)) = 3
           /\ Range(layout.top) \subseteq WantedInTop
           /\ \A w \in Range(layout.top), v \in WantedInTop \ Range(layout.top) :
                 persisted[w].index <= persisted[v].index
           /\ WantedInTop \ Range(layout.top) \subseteq Range(layout.right)

\* C18 witness: widgets 1, 2, 3 were pinned with indexes 0, 1, 2 and another
\* session pinned widget 4 with index 0: widget 3 gave way to it.
C18_Witness ==
    /\ last.op = "recalculateRoom"
    /\ Cardinality(WantedInTop) = 4
    /\ persisted[3].index = 2
    /\ persisted[4].index = 0
    /\ layout.top = <<1, 4, 2>>
    /\ layout.right = <<3>>

C20_DelayOnlyForExactBytes ==
    pc = "done"
        => LET first == getUint8(view, offset)
               second == getUint8(view, offset + 1)
           IN IF first = 33 /\ second = 249
                  THEN animated = (getUint16(view, offset + 4) # 0)
              ELSE delayTime = 0 /\ animated = FALSE

\* The file is the signature followed by well-formed chunks and nothing else.
WellFormedPng == blob.header = PngSignature /\ blob.tail = << >>

====
